---- MODULE Spec2Model ----
(***************************************************************************)
(* A model of Kando's InputTracker (src/renderer/menu/input-tracker.ts).   *)
(*                                                                         *)
(* The tracker is a single mutable record that is driven by the host's    *)
(* input callbacks.  Every handler runs to completion before the next one  *)
(* starts, so each handler is one atomic action of the model.              *)
(*                                                                         *)
(* Lengths are compared through their squares: for a threshold t >= 0,     *)
(* |v| < t  iff  |v|^2 < t^2 and |v| > t  iff  |v|^2 > t^2, which keeps    *)
(* every comparison of the code exact over the integers.                   *)
(***************************************************************************)
EXTENDS Integers, Sequences, FiniteSets, TLC

\* ------------------------------------------------------------------ bounds

\* The pointer moves along the row y = 0, over the columns 0..MaxCoord.
MaxCoord == 2

\* The number of pixels dragThreshold is configured to.
Threshold == 1

\* ------------------------------------------------------------------ values

\* enum InputState
eReleased == "eReleased"
eClicked == "eClicked"
eMarkingMode == "eMarkingMode"
eTurboMode == "eTurboMode"

InputState == {eReleased, eClicked, eMarkingMode, eTurboMode}

\* IVec2
Vec(x, y) == [x |-> x, y |-> y]

\* The value of a position field that holds null.
Null == [null |-> TRUE]

\* The activeItemPosition argument when the caller leaves it out.
NoItem == [none |-> TRUE]

Positions == {Vec(x, 0) : x \in 0..MaxCoord}

\* The active item position the menu passes: the centre of the selected item.
ActiveItems == {Vec(1, 1)}

\* The modifier flags of an event: none held, or alt held.
ModifierFlags ==
    {[ctrlKey |-> c, metaKey |-> m, shiftKey |-> s, altKey |-> a] :
        <<c, m, s, a>> \in {<<FALSE, FALSE, FALSE, FALSE>>,
                            <<FALSE, FALSE, FALSE, TRUE>>}}

\* A MouseEvent (clientX, clientY, buttons) or a TouchEvent (touches[0]); both
\* carry the four modifier flags.  A touch event has no buttons field; it is
\* kept at 0 and never read for touch events.
PointerEvents ==
    {[kind |-> k, x |-> p.x, y |-> p.y, buttons |-> b,
      ctrlKey |-> f.ctrlKey, metaKey |-> f.metaKey,
      shiftKey |-> f.shiftKey, altKey |-> f.altKey] :
        k \in {"mouse", "touch"}, p \in Positions, b \in {0, 1},
        f \in ModifierFlags}

MouseOrTouchEvents == {e \in PointerEvents : e.kind = "touch" => e.buttons = 0}

\* The events that report the pointer at the position p.
EventsAt == [p \in Positions |->
                {e \in MouseOrTouchEvents : e.x = p.x /\ e.y = p.y}]

\* A KeyboardEvent, of which the handlers read only the modifier flags.
KeyboardEvents == ModifierFlags

\* --------------------------------------------------------- vector helpers

subtract(a, b) == Vec(a.x - b.x, a.y - b.y)

\* The length of a vector, represented by its square.
getLength(vec) == vec.x * vec.x + vec.y * vec.y

\* The distance of two points, represented by its square.
getDistance(a, b) == getLength(subtract(a, b))

Abs(n) == IF n < 0 THEN -n ELSE n

RECURSIVE GCD(_, _)
GCD(a, b) == IF b = 0 THEN a ELSE GCD(b, a % b)

\* The angle of a vector, represented by the direction it points to (the
\* vector divided by the greatest common divisor of its components); the
\* null vector has the direction (0, 0).
getAngle(vec) ==
    LET g == GCD(Abs(vec.x), Abs(vec.y))
    IN  IF g = 0 THEN Vec(0, 0) ELSE Vec(vec.x \div g, vec.y \div g)

\* A threshold, represented like the lengths it is compared with.
Sq(t) == t * t

\* ------------------------------------------------------------------- state

VARIABLES
    state,               \* _state
    absolutePosition,    \* _absolutePosition
    relativePosition,    \* _relativePosition
    angle,               \* _angle
    distance,            \* _distance
    deferredTurboMode,   \* _deferredTurboMode
    clickPosition,
    keydownPosition,
    anyKeyPressed,
    ignoreMotionEvents,
    dragThreshold,
    enableMarkingMode,
    enableTurboMode,
    emitted,             \* the 'pointer-motion' payloads emitted by the last call
    pressActive,         \* history: a press happened and no release after it
    motionUpdates,       \* history: motion updates since the last
                         \* ignoreNextMotionEvents(); 3 stands for "three or
                         \* more, or never called"
    prevState,           \* history: the state before the last call
    gesture,             \* history: "fresh" before the first call, "pressed"
                         \* after a press on a fresh tracker and motions that
                         \* stay within dragThreshold of it, "released" after
                         \* the release that ends them, "other" otherwise
    lastCall,            \* history, kept by traced runs only: the handler
                         \* that ran last, and whether its event carried a
                         \* modifier flag
    deferral             \* history, kept by traced runs only: "never" until
                         \* deferredTurboMode is set to true, "waiting" from
                         \* then until the next key-down, "keydown" after it

config == <<dragThreshold, enableMarkingMode, enableTurboMode>>

geometry == <<absolutePosition, relativePosition, angle, distance>>

vars == <<state, absolutePosition, relativePosition, angle, distance,
          deferredTurboMode, clickPosition, keydownPosition, anyKeyPressed,
          ignoreMotionEvents, dragThreshold, enableMarkingMode,
          enableTurboMode, emitted, pressActive, motionUpdates, prevState,
          gesture, lastCall, deferral>>

\* A call of the handler op, whose event carries a modifier flag or not.
Call(op, modifier) == [op |-> op, modifier |-> modifier]

\* The value of lastCall in a run that keeps no record of the calls.
Untraced == Call("untraced", FALSE)

\* The tracker after construction and after the menu has set the public
\* configuration fields (dragThreshold to a positive number of pixels,
\* enableMarkingMode, enableTurboMode), which stay as they are for the session.
Init ==
    /\ state = eReleased
    /\ absolutePosition = Vec(0, 0)
    /\ relativePosition = Vec(0, 0)
    /\ angle = Vec(0, 0)
    /\ distance = 0
    /\ deferredTurboMode = FALSE
    /\ clickPosition = Vec(0, 0)
    /\ keydownPosition = Vec(0, 0)
    /\ anyKeyPressed = FALSE
    /\ ignoreMotionEvents = 0
    /\ dragThreshold = Threshold
    /\ enableMarkingMode \in BOOLEAN
    /\ enableTurboMode \in BOOLEAN
    /\ emitted = <<>>
    /\ pressActive = FALSE
    /\ motionUpdates = 3
    /\ prevState = eReleased
    /\ gesture = "fresh"
    /\ lastCall = Untraced
    /\ deferral = "untraced"

\* The tracker after construction with its default configuration
\* (enableMarkingMode and enableTurboMode true), in a run that records the
\* calls.
InitTraced ==
    /\ state = eReleased
    /\ absolutePosition = Vec(0, 0)
    /\ relativePosition = Vec(0, 0)
    /\ angle = Vec(0, 0)
    /\ distance = 0
    /\ deferredTurboMode = FALSE
    /\ clickPosition = Vec(0, 0)
    /\ keydownPosition = Vec(0, 0)
    /\ anyKeyPressed = FALSE
    /\ ignoreMotionEvents = 0
    /\ dragThreshold = Threshold
    /\ enableMarkingMode = TRUE
    /\ enableTurboMode = TRUE
    /\ emitted = <<>>
    /\ pressActive = FALSE
    /\ motionUpdates = 3
    /\ prevState = eReleased
    /\ gesture = "fresh"
    /\ lastCall = Call("constructor", FALSE)
    /\ deferral = "never"

\* ---------------------------------------------------------------- handlers

EventPosition(event) == Vec(event.x, event.y)

\* The record a traced run keeps of the call: the handler op, the modifier
\* flag of its event, and what the call makes of deferral.
Trace(op, modifier, newDeferral) ==
    IF lastCall = Untraced
    THEN UNCHANGED <<lastCall, deferral>>
    ELSE /\ lastCall' = Call(op, modifier)
         /\ deferral' = newDeferral

AnyModifier(event) ==
    event.ctrlKey \/ event.metaKey \/ event.shiftKey \/ event.altKey

\* const inClickZone, for the position pos and the click position click.
InClickZone(pos, click) ==
    /\ click # Null
    /\ getDistance(pos, click) < Sq(dragThreshold)

\* AfterClickZone without the enableMarkingMode test.
AfterClickZone_AlwaysMarking(st, pos, click) ==
    IF st = eClicked /\ ~InClickZone(pos, click) THEN eMarkingMode ELSE st

\* The state after the click-to-drag promotion, from the state st.
AfterClickZone(st, pos, click) ==
    IF st = eClicked /\ ~InClickZone(pos, click)
    THEN IF enableMarkingMode THEN eMarkingMode ELSE eReleased
    ELSE st

\* CanEnterTurboMode without the enableTurboMode test.
CanEnterTurboMode_IgnoresEnable(st) ==
    /\ ~deferredTurboMode
    /\ st # eTurboMode

\* const canEnterTurboMode, evaluated in the state st.
CanEnterTurboMode(st) ==
    /\ enableTurboMode
    /\ ~deferredTurboMode
    /\ st # eTurboMode

\* ShouldEnterTurboMode with the key-drag test at "at least dragThreshold".
ShouldEnterTurboMode_AtLeast(st, pos, event) ==
    /\ CanEnterTurboMode(st)
    /\ \/ /\ anyKeyPressed
          /\ getDistance(pos, keydownPosition) >= Sq(dragThreshold)
       \/ AnyModifier(event)

\* let shouldEnterTurboMode, once both of its assignments have run.
ShouldEnterTurboMode(st, pos, event) ==
    /\ CanEnterTurboMode(st)
    /\ \/ /\ anyKeyPressed
          /\ getDistance(pos, keydownPosition) > Sq(dragThreshold)
       \/ AnyModifier(event)

\* MotionState releasing a tracker in turbo mode too when no button is held.
MotionState_ReleasesTurbo(st, click, event) ==
    LET pos == EventPosition(event)
        promoted == AfterClickZone(st, pos, click)
    IN  IF ShouldEnterTurboMode(promoted, pos, event)
        THEN eTurboMode
        ELSE IF /\ event.kind = "mouse"
                /\ promoted \in {eMarkingMode, eTurboMode}
                /\ event.buttons = 0
             THEN eReleased
             ELSE promoted

\* MotionState testing the state the event arrived in, and not the promoted
\* one, for the release without buttons.
MotionState_EntryState(st, click, event) ==
    LET pos == EventPosition(event)
        promoted == AfterClickZone(st, pos, click)
    IN  IF ShouldEnterTurboMode(promoted, pos, event)
        THEN eTurboMode
        ELSE IF /\ event.kind = "mouse"
                /\ st = eMarkingMode
                /\ event.buttons = 0
             THEN eReleased
             ELSE promoted

\* The state onMotionEvent leaves behind for a processed event, when it is
\* entered in state st with click position click.
MotionState(st, click, event) ==
    LET pos == EventPosition(event)
        promoted == AfterClickZone(st, pos, click)
    IN  IF ShouldEnterTurboMode(promoted, pos, event)
        THEN eTurboMode
        ELSE IF /\ event.kind = "mouse"
                /\ promoted = eMarkingMode
                /\ event.buttons = 0
             THEN eReleased
             ELSE promoted

\* update with the operands of the subtraction exchanged.
update_Reversed(position, activeItemPosition) ==
    LET item == IF activeItemPosition = NoItem THEN position
                ELSE activeItemPosition
    IN  /\ absolutePosition' = position
        /\ relativePosition' = subtract(item, position)
        /\ distance' = getLength(subtract(item, position))
        /\ angle' = getAngle(subtract(item, position))

\* update(position, activeItemPosition)
update(position, activeItemPosition) ==
    LET item == IF activeItemPosition = NoItem THEN position
                ELSE activeItemPosition
    IN  /\ absolutePosition' = position
        /\ relativePosition' = subtract(position, item)
        /\ distance' = getLength(subtract(position, item))
        /\ angle' = getAngle(subtract(position, item))

\* EmitPointerMotion called before the fields are updated.
EmitPointerMotion_BeforeUpdate(payload, seenState) ==
    <<[payload |-> absolutePosition, state |-> state]>>

\* this.emit('pointer-motion', this._absolutePosition): the payload, and the
\* state a listener reads from the tracker while it is called.
EmitPointerMotion(payload, seenState) ==
    <<[payload |-> payload, state |-> seenState]>>

\* MotionBody whose discarded event also discards the state set by the
\* handler that called it.
MotionBody_DiscardKeepsState(st, click, event, activeItemPosition) ==
    IF ignoreMotionEvents > 0
    THEN /\ ignoreMotionEvents' = ignoreMotionEvents - 1
         /\ state' = state
         /\ emitted' = <<>>
         /\ UNCHANGED geometry
    ELSE /\ update(EventPosition(event), activeItemPosition)
         /\ state' = MotionState(st, click, event)
         /\ emitted' = EmitPointerMotion(absolutePosition', state')
         /\ UNCHANGED ignoreMotionEvents

\* The body of onMotionEvent, entered in state st with click position click
\* (the fields as onPointerDownEvent has just set them, or as they are).
MotionBody(st, click, event, activeItemPosition) ==
    IF ignoreMotionEvents > 0
    THEN /\ ignoreMotionEvents' = ignoreMotionEvents - 1
         /\ state' = st
         /\ emitted' = <<>>
         /\ UNCHANGED geometry
    ELSE /\ update(EventPosition(event), activeItemPosition)
         /\ state' = MotionState(st, click, event)
         /\ emitted' = EmitPointerMotion(absolutePosition', state')
         /\ UNCHANGED ignoreMotionEvents

CountMotionUpdate == IF motionUpdates < 3 THEN motionUpdates + 1 ELSE 3

onMotionEvent(event, activeItemPosition) ==
    /\ MotionBody(state, clickPosition, event, activeItemPosition)
    /\ motionUpdates' = CountMotionUpdate
    /\ prevState' = state
    /\ Trace("onMotionEvent", AnyModifier(event), deferral)
    /\ gesture' = IF /\ gesture = "pressed"
                     /\ ~AnyModifier(event)
                     /\ getDistance(EventPosition(event), clickPosition)
                            <= Sq(dragThreshold)
                  THEN "pressed"
                  ELSE "other"
    /\ UNCHANGED <<clickPosition, keydownPosition, anyKeyPressed,
                   deferredTurboMode, pressActive, config>>

\* onPointerDownEvent without the assignment of eClicked.
onPointerDownEvent_KeepsState(event, activeItemPosition) ==
    /\ clickPosition' = EventPosition(event)
    /\ MotionBody(state, EventPosition(event), event, activeItemPosition)
    /\ pressActive' = TRUE
    /\ motionUpdates' = CountMotionUpdate
    /\ prevState' = state
    /\ Trace("onPointerDownEvent", AnyModifier(event), deferral)
    /\ gesture' = IF gesture = "fresh" /\ ~AnyModifier(event)
                  THEN "pressed"
                  ELSE "other"
    /\ UNCHANGED <<keydownPosition, anyKeyPressed, deferredTurboMode, config>>

onPointerDownEvent(event, activeItemPosition) ==
    /\ clickPosition' = EventPosition(event)
    /\ MotionBody(eClicked, EventPosition(event), event, activeItemPosition)
    /\ pressActive' = TRUE
    /\ motionUpdates' = CountMotionUpdate
    /\ prevState' = state
    /\ Trace("onPointerDownEvent", AnyModifier(event), deferral)
    /\ gesture' = IF gesture = "fresh" /\ ~AnyModifier(event)
                  THEN "pressed"
                  ELSE "other"
    /\ UNCHANGED <<keydownPosition, anyKeyPressed, deferredTurboMode, config>>

\* onPointerUpEvent also forgetting the held key.
onPointerUpEvent_ReleasesKey ==
    /\ state' = eReleased
    /\ clickPosition' = Null
    /\ anyKeyPressed' = FALSE
    /\ emitted' = <<>>
    /\ pressActive' = FALSE
    /\ prevState' = state
    /\ Trace("onPointerUpEvent", FALSE, deferral)
    /\ gesture' = IF gesture = "pressed" THEN "released" ELSE "other"
    /\ UNCHANGED <<geometry, keydownPosition, deferredTurboMode,
                   ignoreMotionEvents, motionUpdates, config>>

onPointerUpEvent ==
    /\ state' = eReleased
    /\ clickPosition' = Null
    /\ emitted' = <<>>
    /\ pressActive' = FALSE
    /\ prevState' = state
    /\ Trace("onPointerUpEvent", FALSE, deferral)
    /\ gesture' = IF gesture = "pressed" THEN "released" ELSE "other"
    /\ UNCHANGED <<geometry, keydownPosition, anyKeyPressed,
                   deferredTurboMode, ignoreMotionEvents, motionUpdates,
                   config>>

\* onKeyDownEvent ending the deferral itself.
onKeyDownEvent_ClearsDeferred ==
    /\ anyKeyPressed' = TRUE
    /\ keydownPosition' = Vec(absolutePosition.x, absolutePosition.y)
    /\ deferredTurboMode' = FALSE
    /\ emitted' = <<>>
    /\ prevState' = state
    /\ Trace("onKeyDownEvent", FALSE,
             IF deferral = "waiting" THEN "keydown" ELSE deferral)
    /\ gesture' = "other"
    /\ UNCHANGED <<state, geometry, clickPosition, ignoreMotionEvents,
                   pressActive, motionUpdates, config>>

\* onKeyDownEvent recording the key whether or not turbo mode is deferred.
onKeyDownEvent_IgnoresDeferred ==
    /\ anyKeyPressed' = TRUE
    /\ keydownPosition' = Vec(absolutePosition.x, absolutePosition.y)
    /\ emitted' = <<>>
    /\ prevState' = state
    /\ Trace("onKeyDownEvent", FALSE,
             IF deferral = "waiting" THEN "keydown" ELSE deferral)
    /\ gesture' = "other"
    /\ UNCHANGED <<state, geometry, clickPosition, deferredTurboMode,
                   ignoreMotionEvents, pressActive, motionUpdates, config>>

onKeyDownEvent ==
    /\ IF ~deferredTurboMode
       THEN /\ anyKeyPressed' = TRUE
            /\ keydownPosition' = Vec(absolutePosition.x, absolutePosition.y)
       ELSE UNCHANGED <<anyKeyPressed, keydownPosition>>
    /\ emitted' = <<>>
    /\ prevState' = state
    /\ Trace("onKeyDownEvent", FALSE,
             IF deferral = "waiting" THEN "keydown" ELSE deferral)
    /\ gesture' = "other"
    /\ UNCHANGED <<state, geometry, clickPosition, deferredTurboMode,
                   ignoreMotionEvents, pressActive, motionUpdates, config>>

\* KeyUpState falling back to eClicked while a press is active.
KeyUpState_Clicked ==
    IF state = eTurboMode
    THEN IF clickPosition # Null THEN eClicked ELSE eReleased
    ELSE state

\* The state onKeyUpEvent leaves behind once every modifier is released.
KeyUpState ==
    IF state = eTurboMode
    THEN IF clickPosition # Null THEN eMarkingMode ELSE eReleased
    ELSE state

\* onKeyUpEvent releasing the held key although a modifier is still pressed.
onKeyUpEvent_ReleasesKey(event) ==
    /\ anyKeyPressed' = FALSE
    /\ IF ~AnyModifier(event)
       THEN /\ deferredTurboMode' = FALSE
            /\ state' = KeyUpState
       ELSE UNCHANGED <<deferredTurboMode, state>>
    /\ emitted' = <<>>
    /\ prevState' = state
    /\ Trace("onKeyUpEvent", AnyModifier(event), deferral)
    /\ gesture' = "other"
    /\ UNCHANGED <<geometry, clickPosition, keydownPosition,
                   ignoreMotionEvents, pressActive, motionUpdates, config>>

onKeyUpEvent(event) ==
    /\ IF ~AnyModifier(event)
       THEN /\ anyKeyPressed' = FALSE
            /\ deferredTurboMode' = FALSE
            /\ state' = KeyUpState
       ELSE UNCHANGED <<anyKeyPressed, deferredTurboMode, state>>
    /\ emitted' = <<>>
    /\ prevState' = state
    /\ Trace("onKeyUpEvent", AnyModifier(event), deferral)
    /\ gesture' = "other"
    /\ UNCHANGED <<geometry, clickPosition, keydownPosition,
                   ignoreMotionEvents, pressActive, motionUpdates, config>>

\* set deferredTurboMode(val)
setDeferredTurboMode(val) ==
    /\ deferredTurboMode' = val
    /\ emitted' = <<>>
    /\ prevState' = state
    /\ Trace("deferredTurboMode", FALSE,
             IF val THEN "waiting" ELSE "never")
    /\ gesture' = "other"
    /\ UNCHANGED <<state, geometry, clickPosition, keydownPosition,
                   anyKeyPressed, ignoreMotionEvents, pressActive,
                   motionUpdates, config>>

\* ignoreNextMotionEvents discarding one event only.
ignoreNextMotionEvents_One ==
    /\ ignoreMotionEvents' = 1
    /\ emitted' = <<>>
    /\ motionUpdates' = 0
    /\ prevState' = state
    /\ Trace("ignoreNextMotionEvents", FALSE, deferral)
    /\ gesture' = "other"
    /\ UNCHANGED <<state, geometry, clickPosition, keydownPosition,
                   anyKeyPressed, deferredTurboMode, pressActive, config>>

\* ignoreNextMotionEvents discarding three events.
ignoreNextMotionEvents_Three ==
    /\ ignoreMotionEvents' = 3
    /\ emitted' = <<>>
    /\ motionUpdates' = 0
    /\ prevState' = state
    /\ Trace("ignoreNextMotionEvents", FALSE, deferral)
    /\ gesture' = "other"
    /\ UNCHANGED <<state, geometry, clickPosition, keydownPosition,
                   anyKeyPressed, deferredTurboMode, pressActive, config>>

ignoreNextMotionEvents ==
    /\ ignoreMotionEvents' = 2
    /\ emitted' = <<>>
    /\ motionUpdates' = 0
    /\ prevState' = state
    /\ Trace("ignoreNextMotionEvents", FALSE, deferral)
    /\ gesture' = "other"
    /\ UNCHANGED <<state, geometry, clickPosition, keydownPosition,
                   anyKeyPressed, deferredTurboMode, pressActive, config>>

Motion == \E e \in MouseOrTouchEvents, a \in ActiveItems : onMotionEvent(e, a)

PointerDown ==
    \E e \in MouseOrTouchEvents, a \in ActiveItems : onPointerDownEvent(e, a)

KeyUp == \E e \in KeyboardEvents : onKeyUpEvent(e)

SetDeferred == \E val \in BOOLEAN : setDeferredTurboMode(val)

Next ==
    \/ Motion
    \/ PointerDown
    \/ onPointerUpEvent
    \/ onKeyDownEvent
    \/ KeyUp
    \/ SetDeferred
    \/ ignoreNextMotionEvents

Spec == Init /\ [][Next]_vars

\* The same handlers, from the default configuration, with the calls recorded.
SpecTraced == InitTraced /\ [][Next]_vars

\* The active item positions of the runs that look at the geometry: left
\* out, or the centre of one of two menu items.
GeometryItems == {NoItem, Vec(1, 1), Vec(2, 0)}

\* The events of those runs: a mouse with a button held and no modifier.
GeometryEvents ==
    {e \in MouseOrTouchEvents :
        e.kind = "mouse" /\ e.buttons = 1 /\ ~AnyModifier(e)}

MotionOverItem ==
    \E e \in GeometryEvents, a \in GeometryItems : onMotionEvent(e, a)

PointerDownOverItem ==
    \E e \in GeometryEvents, a \in GeometryItems : onPointerDownEvent(e, a)

NextGeometry ==
    \/ MotionOverItem
    \/ PointerDownOverItem
    \/ onPointerUpEvent
    \/ ignoreNextMotionEvents

\* Presses, motions and releases over the menu items.
SpecGeometry == Init /\ [][NextGeometry]_vars

TypeOK ==
    /\ state \in InputState
    /\ absolutePosition \in Positions
    /\ clickPosition \in Positions \cup {Null}
    /\ keydownPosition \in Positions
    /\ anyKeyPressed \in BOOLEAN
    /\ deferredTurboMode \in BOOLEAN
    /\ ignoreMotionEvents \in 0..2
    /\ Len(emitted) <= 1
    /\ lastCall \in [op : STRING, modifier : BOOLEAN]
    /\ deferral \in {"untraced", "never", "waiting", "keydown"}

\* ------------------------------------------------------------------ claims

\* The turbo trigger of the event e, as the specification states it: turbo
\* mode is enabled and not deferred, and a key is held with the pointer
\* farther than dragThreshold from where it was pressed, or e carries a
\* modifier flag.
TurboTrigger(e) ==
    /\ enableTurboMode
    /\ ~deferredTurboMode
    /\ \/ /\ anyKeyPressed
          /\ getDistance(EventPosition(e), keydownPosition) > Sq(dragThreshold)
       \/ e.ctrlKey \/ e.metaKey \/ e.shiftKey \/ e.altKey

\* The mouse event e reports no button held.
NoButtons(e) == e.kind = "mouse" /\ e.buttons = 0

\* The step is a motion update of the event e: onMotionEvent, or the motion
\* processing inside onPointerDownEvent.
MotionUpdateOf(e, a) == onMotionEvent(e, a) \/ onPointerDownEvent(e, a)

\* C1: on a fresh tracker (dragThreshold > 0), after a press and any number of
\* motions that carry no modifier flag and stay within dragThreshold of the
\* press position (distance <= dragThreshold), the state is Clicked; after the
\* release that follows, the state is Released and clickPosition is null.
C1_ClickedUntilRelease ==
    dragThreshold > 0 =>
        /\ gesture = "pressed" => state = eClicked
        /\ gesture = "released" => state = eReleased /\ clickPosition = Null

\* C2 as stated: a processed motion that arrives in state Clicked strictly
\* farther than dragThreshold from the press position leaves MarkingMode when
\* marking mode is enabled and Released when it is disabled.
C2_Original ==
    [][( /\ state = eClicked
         /\ ignoreMotionEvents = 0
         /\ clickPosition # Null
         /\ getDistance(absolutePosition', clickPosition) > Sq(dragThreshold) )
       => \A e \in EventsAt[absolutePosition'], a \in ActiveItems :
             onMotionEvent(e, a)
             => state' = IF enableMarkingMode THEN eMarkingMode
                         ELSE eReleased]_vars

\* C2 as amended: such a motion leaves TurboMode when a turbo trigger holds on
\* it; otherwise MarkingMode when marking mode is enabled and the event is a
\* touch event or reports a button held, and Released when marking mode is
\* disabled or the mouse event reports no button held.
C2_DragPromotion ==
    [][( /\ state = eClicked
         /\ ignoreMotionEvents = 0
         /\ clickPosition # Null
         /\ getDistance(absolutePosition', clickPosition) > Sq(dragThreshold) )
       => \A e \in EventsAt[absolutePosition'], a \in ActiveItems :
             onMotionEvent(e, a)
             => state' = IF TurboTrigger(e) THEN eTurboMode
                         ELSE IF enableMarkingMode /\ ~NoButtons(e)
                              THEN eMarkingMode
                              ELSE eReleased]_vars

\* C2 witness: a motion took the tracker from Clicked to MarkingMode, the
\* pointer being farther than dragThreshold from the press position.
C2_Witness ==
    /\ prevState = eClicked
    /\ state = eMarkingMode
    /\ emitted # <<>>
    /\ clickPosition # Null
    /\ getDistance(absolutePosition, clickPosition) > Sq(dragThreshold)

C4_KeyUpLeavesTurbo ==
    [][\A e \in KeyboardEvents :
          ( /\ state = eTurboMode
            /\ ~(e.ctrlKey \/ e.metaKey \/ e.shiftKey \/ e.altKey)
            /\ onKeyUpEvent(e) )
          => state' = IF pressActive THEN eMarkingMode ELSE eReleased]_vars

\* C5: clickPosition is non-null exactly while a press is active.
C5_ClickPositionIffPressed == (clickPosition # Null) <=> pressActive

\* C6: with turbo mode disabled the state is never TurboMode.
C6_NoTurboWhenDisabled == ~enableTurboMode => state # eTurboMode

\* C6 witness: with turbo mode disabled, a motion was processed while a key was
\* held and the pointer was farther than dragThreshold from the key-down
\* position, which is a turbo trigger when turbo mode is enabled.
C6_Witness ==
    /\ ~enableTurboMode
    /\ ~deferredTurboMode
    /\ anyKeyPressed
    /\ emitted # <<>>
    /\ getDistance(absolutePosition, keydownPosition) > Sq(dragThreshold)

C8_IgnoreCounter ==
    /\ [](ignoreMotionEvents \in 0..2)
    /\ [][ /\ ignoreMotionEvents' > ignoreMotionEvents
              => ignoreNextMotionEvents /\ ignoreMotionEvents' = 2
           /\ ignoreMotionEvents' < ignoreMotionEvents
              => /\ ignoreMotionEvents' = ignoreMotionEvents - 1
                 /\ \E e \in MouseOrTouchEvents, a \in ActiveItems :
                        MotionUpdateOf(e, a)
           /\ (\/ onPointerUpEvent
               \/ onKeyDownEvent
               \/ \E e \in KeyboardEvents : onKeyUpEvent(e))
              => ignoreMotionEvents' = ignoreMotionEvents ]_vars

\* C8 witness: one motion update has been discarded since the last
\* ignoreNextMotionEvents(), which took the counter from 2 to 1.
C8_Witness == ignoreMotionEvents = 1 /\ motionUpdates = 1

\* The rows of the transition table that the step takes, the press row being
\* left to the two statements of C9.  "Beyond the threshold" is read as the
\* code decides it, as leaving the click zone; C1 is about the exact boundary.
C9_TableRow ==
    \/ /\ state = eClicked
       /\ state' \in {eMarkingMode, eReleased}
       /\ clickPosition # Null
       /\ getDistance(absolutePosition', clickPosition) >= Sq(dragThreshold)
       /\ \E e \in MouseOrTouchEvents, a \in ActiveItems : onMotionEvent(e, a)
    \/ /\ state \in {eClicked, eMarkingMode, eReleased}
       /\ state' = eTurboMode
       /\ \E e \in MouseOrTouchEvents, a \in ActiveItems :
              TurboTrigger(e) /\ MotionUpdateOf(e, a)
    \/ /\ state = eMarkingMode
       /\ state' = eReleased
       /\ \E e \in MouseOrTouchEvents, a \in ActiveItems :
              NoButtons(e) /\ onMotionEvent(e, a)
    \/ /\ state' = eReleased
       /\ onPointerUpEvent
    \/ /\ state = eTurboMode
       /\ state' \in {eMarkingMode, eReleased}
       /\ \E e \in KeyboardEvents :
              /\ ~(e.ctrlKey \/ e.metaKey \/ e.shiftKey \/ e.altKey)
              /\ onKeyUpEvent(e)

\* A press that leaves Clicked, from one of the states in from.
C9_PressRow(from) ==
    /\ state \in from
    /\ state' = eClicked
    /\ \E e \in MouseOrTouchEvents, a \in ActiveItems : onPointerDownEvent(e, a)

C10_PointerMotion ==
    [][IF ignoreMotionEvents > 0
       THEN emitted' = <<>>
       ELSE /\ \A e \in MouseOrTouchEvents, a \in ActiveItems :
                  MotionUpdateOf(e, a)
                  => /\ absolutePosition' = EventPosition(e)
                     /\ emitted' = <<[payload |-> EventPosition(e),
                                      state |-> state']>>
            /\ (\/ onPointerUpEvent
                \/ onKeyDownEvent
                \/ \E e \in KeyboardEvents : onKeyUpEvent(e)
                \/ \E val \in BOOLEAN : setDeferredTurboMode(val)
                \/ ignoreNextMotionEvents)
               => emitted' = <<>>]_vars

\* C10 witness: a motion was processed that moved the pointer and left the
\* state as it was, and its notification was emitted.
C10_Witness ==
    /\ Len(emitted) = 1
    /\ prevState = state
    /\ state = eReleased
    /\ absolutePosition # Vec(0, 0)

\* C11: after every processed motion update with event position p and active
\* item position a, absolutePosition = p, relativePosition = p - a
\* componentwise, and the squared distance is relativePosition.x^2 +
\* relativePosition.y^2; when the active item is left out, relativePosition
\* is (0, 0) and the distance is 0.
C11_Geometry ==
    [][ignoreMotionEvents = 0
       => \A e \in GeometryEvents, a \in GeometryItems :
             MotionUpdateOf(e, a)
             => /\ absolutePosition' = Vec(e.x, e.y)
                /\ a # NoItem
                   => relativePosition' = Vec(e.x - a.x, e.y - a.y)
                /\ a = NoItem
                   => relativePosition' = Vec(0, 0) /\ distance' = 0
                /\ distance' = relativePosition'.x * relativePosition'.x
                               + relativePosition'.y * relativePosition'.y]_vars

\* C11 witness: a motion update at (0, 0) over the item centred at (1, 1) was
\* processed.
C11_Witness ==
    /\ Len(emitted) = 1
    /\ absolutePosition = Vec(0, 0)
    /\ relativePosition = Vec(-1, -1)
    /\ distance = 2

C13_PointerUpFrame ==
    [][onPointerUpEvent
       => /\ state' = eReleased
          /\ clickPosition' = Null
          /\ UNCHANGED <<absolutePosition, relativePosition, distance, angle,
                         anyKeyPressed, keydownPosition, deferredTurboMode,
                         ignoreMotionEvents>>
          /\ emitted' = <<>>]_vars

\* C13 witness: a press away from the origin with a key held and motion
\* events to be ignored was released: only onPointerUpEvent leaves the state
\* Clicked with clickPosition null.
C13_Witness ==
    /\ prevState = eClicked
    /\ state = eReleased
    /\ clickPosition = Null
    /\ anyKeyPressed
    /\ ignoreMotionEvents = 2
    /\ absolutePosition # Vec(0, 0)

\* C14: an onKeyUp whose event still reports a modifier held changes nothing:
\* state, anyKeyPressed, deferredTurboMode, clickPosition and the geometry
\* fields keep their values; a tracker in TurboMode stays in TurboMode.
C14_KeyUpWithModifier ==
    [][\A e \in KeyboardEvents :
          (AnyModifier(e) /\ onKeyUpEvent(e))
          => /\ UNCHANGED <<state, anyKeyPressed, deferredTurboMode,
                            clickPosition, keydownPosition,
                            ignoreMotionEvents, geometry>>
             /\ emitted' = <<>>
             /\ state = eTurboMode => state' = eTurboMode]_vars

\* C14 witness: a key was released in TurboMode while a modifier was still
\* held, and the tracker is in TurboMode with the key recorded as held.
C14_Witness ==
    /\ lastCall = Call("onKeyUpEvent", TRUE)
    /\ prevState = eTurboMode
    /\ state = eTurboMode
    /\ anyKeyPressed

\* C15: on a motion update that is not ignored, when the turbo trigger holds
\* on the event the final state is TurboMode, whatever the promotion and the
\* buttons; when it does not hold and the mouse event reports no button held,
\* a tracker in MarkingMode, or promoted to it from Clicked by the same event,
\* ends the event in Released.
C15_ReleaseWithoutButtons ==
    [][ignoreMotionEvents = 0
       => \A e \in EventsAt[absolutePosition'], a \in ActiveItems :
             /\ (TurboTrigger(e) /\ MotionUpdateOf(e, a))
                => state' = eTurboMode
             /\ (/\ ~TurboTrigger(e)
                 /\ NoButtons(e)
                 /\ \/ state = eMarkingMode
                    \/ /\ state = eClicked
                       /\ enableMarkingMode
                       /\ ~InClickZone(EventPosition(e), clickPosition)
                 /\ onMotionEvent(e, a))
                => state' = eReleased]_vars

\* C15 witness: with marking mode enabled, a motion that left the click zone
\* with no button held took the tracker from Clicked to Released.
C15_Witness ==
    /\ prevState = eClicked
    /\ state = eReleased
    /\ enableMarkingMode
    /\ Len(emitted) = 1
    /\ clickPosition # Null
    /\ clickPosition # absolutePosition

C17_HandlersWhileIgnoring ==
    [][ignoreMotionEvents > 0
       => /\ \A e \in MouseOrTouchEvents, a \in ActiveItems :
                onPointerDownEvent(e, a)
                => /\ clickPosition' = Vec(e.x, e.y)
                   /\ state' = eClicked
                   /\ ignoreMotionEvents' = ignoreMotionEvents - 1
                   /\ UNCHANGED <<absolutePosition, relativePosition,
                                  distance, angle>>
                   /\ emitted' = <<>>
          /\ onPointerUpEvent
             => /\ state' = eReleased
                /\ clickPosition' = Null
                /\ UNCHANGED ignoreMotionEvents
          /\ (onKeyDownEvent /\ ~deferredTurboMode)
             => /\ anyKeyPressed' = TRUE
                /\ keydownPosition' = absolutePosition
                /\ UNCHANGED ignoreMotionEvents
          /\ \A e \in KeyboardEvents :
                (~AnyModifier(e) /\ onKeyUpEvent(e))
                => /\ anyKeyPressed' = FALSE
                   /\ deferredTurboMode' = FALSE
                   /\ state = eTurboMode => state' # eTurboMode
                   /\ UNCHANGED ignoreMotionEvents]_vars

\* C17 witness: a press away from the pointer's recorded position arrived in
\* Released while two motion events were to be ignored: the state is Clicked,
\* one count is left, the position is the old one and nothing was emitted.
C17_Witness ==
    /\ prevState = eReleased
    /\ state = eClicked
    /\ pressActive
    /\ ignoreMotionEvents = 1
    /\ clickPosition # absolutePosition
    /\ emitted = <<>>

\* C18: with the ignore counter at 0 and dragThreshold > 0, an onPointerDown
\* in any state sets clickPosition and absolutePosition to the event's
\* coordinates and leaves the state Clicked, unless a turbo trigger holds on
\* that event, in which case it leaves TurboMode; it never leaves MarkingMode
\* or Released.
C18_PointerDown ==
    [][(ignoreMotionEvents = 0 /\ dragThreshold > 0)
       => \A e \in MouseOrTouchEvents, a \in ActiveItems :
             onPointerDownEvent(e, a)
             => /\ clickPosition' = Vec(e.x, e.y)
                /\ absolutePosition' = Vec(e.x, e.y)
                /\ state' = IF TurboTrigger(e) THEN eTurboMode ELSE eClicked
                /\ state' \notin {eMarkingMode, eReleased}]_vars

\* C18 witness: a press arrived in TurboMode with no turbo trigger on it and
\* left the state Clicked, with the click and the pointer at its position.
C18_Witness ==
    /\ prevState = eTurboMode
    /\ state = eClicked
    /\ pressActive
    /\ Len(emitted) = 1
    /\ clickPosition = absolutePosition

\* C19: once the state is TurboMode, no onMotion changes it, whatever the
\* position, the modifier flags and the buttons of the event; TurboMode is
\* left only by an onKeyUp with no modifier held, an onPointerUp or an
\* onPointerDown.
C19_TurboSticky ==
    [][state = eTurboMode
       => /\ \A e \in MouseOrTouchEvents, a \in ActiveItems :
                onMotionEvent(e, a) => state' = eTurboMode
          /\ state' # eTurboMode
             => \/ onPointerUpEvent
                \/ \E e \in KeyboardEvents :
                       ~AnyModifier(e) /\ onKeyUpEvent(e)
                \/ \E e \in MouseOrTouchEvents, a \in ActiveItems :
                       onPointerDownEvent(e, a)]_vars

\* C19 witness: in TurboMode, with no key held and no press active, a motion
\* event without a modifier flag was processed and the state is TurboMode.
C19_Witness ==
    /\ lastCall = Call("onMotionEvent", FALSE)
    /\ prevState = eTurboMode
    /\ state = eTurboMode
    /\ Len(emitted) = 1
    /\ ~anyKeyPressed
    /\ clickPosition = Null

====
